---- MODULE Spec2Model ----
(***************************************************************************)
(* A model of update_crypto_data.py: pair discovery (get_usd_pairs), the   *)
(* paginated history fetcher (get_ohlc_data) and the dataset reconciler    *)
(* (main), together with the two collaborators the job talks to: the       *)
(* exchange API, whose answers are chosen nondeterministically, and the    *)
(* CSV file.                                                               *)
(*                                                                         *)
(* Time is in seconds since the epoch.  A datetime64 value of the 'date'   *)
(* column is represented by the second it denotes.  A candle keeps the two *)
(* of its eight fields that survive the projection at line 112 (time and   *)
(* close); close prices are numbers.                                       *)
(***************************************************************************)
EXTENDS Integers, Sequences, FiniteSets, TLC

\* ---------------------------------------------------------------- constants

\* line 10; scaled down from 720 so that full and short pages both occur
KRAKEN_MAX_RESULTS == 2
\* line 9
DAYS_OF_HISTORY == 730
\* seconds in timedelta(days=1)
DaySecs == 86400

\* ------------------------------------------------------------------- bounds

\* the exchange answers at most MaxPages requests of one fetch with a full page
MaxPages == 2
\* the clock advances at most MaxTicks days
MaxTicks == 1

FirstNow == 730 * DaySecs
MaxNow == FirstNow + MaxTicks * DaySecs

\* identifiers the exchange may list, in Python's string order
PairOrder == <<"ADAUSD", "XBTEUR", "XBTUSD", "XBTUSD.d">>
Universe == {PairOrder[i] : i \in 1..Len(PairOrder)}
\* the two days the exchange has candles for: yesterday's candle is committed,
\* today's is still open and its close may be revised between two requests
Yesterday == 729 * DaySecs
Today == 730 * DaySecs
Times == {Yesterday, Today}
Candles ==
  {[time |-> Yesterday, close |-> 1], [time |-> Today, close |-> 1],
   [time |-> Today, close |-> 2]}
\* values of the 'last' cursor the exchange may report
Cursors == Times

\* the non-empty answers to one OHLC request: candles in strictly ascending time
Pages ==
  {<<c>> : c \in Candles}
  \cup {p \in Candles \X Candles : p[1].time < p[2].time}

\* the results of AssetPairs: up to two identifiers, in the order of the mapping
Listings ==
  {<<>>} \cup {<<p>> : p \in Universe}
  \cup {l \in Universe \X Universe : l[1] # l[2]}

\* no file at CSV_FILE_PATH
AbsentFile == [exists |-> FALSE, header |-> <<>>, lines |-> <<>>]

\* ------------------------------------------------------------ pure helpers

Range(s) == {s[i] : i \in 1..Len(s)}

SetMax(S) == CHOOSE m \in S : \A x \in S : x <= m

PairRank(p) == CHOOSE i \in 1..Len(PairOrder) : PairOrder[i] = p

\* pair.endswith('USD') and '.d' in pair, tabulated on the identifiers of Universe
EndsWithUSD(p) == p \in {"ADAUSD", "XBTUSD"}
ContainsDotD(p) == p \in {"XBTUSD.d"}

\* line 22: the comprehension keeps the order of the mapping
RECURSIVE FilterUsd(_)
FilterUsd(listing) ==
  IF listing = <<>> THEN <<>>
  ELSE IF EndsWithUSD(Head(listing)) /\ ~ContainsDotD(Head(listing))
       THEN <<Head(listing)>> \o FilterUsd(Tail(listing))
       ELSE FilterUsd(Tail(listing))

\* pd.to_datetime(df['time'], unit='s') and Timestamp.timestamp(): exact on whole seconds
ToDatetime(t) == t
DateTimestamp(d) == d

\* lines 109-112: the frame of one instrument's candles, projected on pair, date, close
ProjectRows(pair, ohlc) ==
  [i \in 1..Len(ohlc) |->
     [pair |-> pair, date |-> ToDatetime(ohlc[i].time), close |-> ohlc[i].close]]

\* to_csv(index=False): the header, then one line per row, columns in frame order
CsvHeader == <<"pair", "date", "close">>
ToCsv(df) ==
  [exists |-> TRUE,
   header |-> CsvHeader,
   lines |-> [i \in 1..Len(df) |-> <<df[i].pair, df[i].date, df[i].close>>]]

\* read_csv: the columns are named by the header line
ColumnOf(header, name) == CHOOSE k \in 1..Len(header) : header[k] = name
ReadCsv(f) ==
  [i \in 1..Len(f.lines) |->
     [pair |-> f.lines[i][ColumnOf(f.header, "pair")],
      date |-> f.lines[i][ColumnOf(f.header, "date")],
      close |-> f.lines[i][ColumnOf(f.header, "close")]]]

SameKey(a, b) == a.pair = b.pair /\ a.date = b.date

\* drop_duplicates(subset=['pair', 'date'], keep='first'): a row stays when no
\* earlier row has its key
RECURSIVE KeepFirstFrom(_, _)
KeepFirstFrom(df, i) ==
  IF i > Len(df) THEN <<>>
  ELSE (IF \A j \in 1..(i - 1) : ~SameKey(df[i], df[j]) THEN <<df[i]>> ELSE <<>>)
       \o KeepFirstFrom(df, i + 1)

DropDuplicatesKeepFirst(df) == KeepFirstFrom(df, 1)

\* concatenation with no removal of duplicates
DropDuplicatesNone(df) == df

\* a row stays when no later row has its key; the rows that stay keep their order
RECURSIVE KeepLastFrom(_, _)
KeepLastFrom(df, i) ==
  IF i > Len(df) THEN <<>>
  ELSE (IF \A j \in (i + 1)..Len(df) : ~SameKey(df[i], df[j]) THEN <<df[i]>> ELSE <<>>)
       \o KeepLastFrom(df, i + 1)

\* line 122: drop_duplicates(subset=['pair', 'date'], keep='last')
DropDuplicates(df) == KeepLastFrom(df, 1)

\* the order of sort_values(by=['pair', 'date']): strings, then datetimes
RowLess(a, b) ==
  \/ PairRank(a.pair) < PairRank(b.pair)
  \/ a.pair = b.pair /\ a.date < b.date

RECURSIVE InsertRow(_, _)
InsertRow(r, sorted) ==
  IF sorted = <<>> THEN <<r>>
  ELSE IF RowLess(r, Head(sorted)) THEN <<r>> \o sorted
       ELSE <<Head(sorted)>> \o InsertRow(r, Tail(sorted))

RECURSIVE SortRows(_)
SortRows(df) ==
  IF df = <<>> THEN <<>> ELSE InsertRow(df[Len(df)], SortRows(SubSeq(df, 1, Len(df) - 1)))

\* sort_values(by=['date']) alone
RECURSIVE InsertByDate(_, _)
InsertByDate(r, sorted) ==
  IF sorted = <<>> THEN <<r>>
  ELSE IF r.date < Head(sorted).date THEN <<r>> \o sorted
       ELSE <<Head(sorted)>> \o InsertByDate(r, Tail(sorted))

RECURSIVE SortValuesByDate(_)
SortValuesByDate(df) ==
  IF df = <<>> THEN <<>>
  ELSE InsertByDate(df[Len(df)], SortValuesByDate(SubSeq(df, 1, Len(df) - 1)))

\* line 125: sort_values(by=['pair', 'date']).reset_index(drop=True)
SortValues(df) == SortRows(df)

\* lines 117-127: the frame that is written
Reconcile(existing, new_data) == SortValues(DropDuplicates(existing \o new_data))

\* line 87: existing_df['date'].max().timestamp()
MaxDateTimestamp(df) == DateTimestamp(SetMax({df[i].date : i \in 1..Len(df)}))

\* lines 92-93 and 101: int((datetime.now() - timedelta(days=DAYS_OF_HISTORY)).timestamp())
LookbackStart(clock) == clock - DAYS_OF_HISTORY * DaySecs

PairsIn(df) == {df[i].pair : i \in 1..Len(df)}

\* the global last update for every instrument, new or not
SinceForGlobal(pair, existing, last_update, clock) == last_update

\* lines 99-104: where the fetch of one instrument starts
SinceFor(pair, existing, last_update, clock) ==
  IF existing # <<>> /\ pair \notin PairsIn(existing)
  THEN LookbackStart(clock)
  ELSE last_update

\* lines 38-40: the parameters of a request; 'since' is left out when the cursor is 0
RequestParams(pair, cursor) ==
  IF cursor # 0
  THEN [pair |-> pair, interval |-> 1440, since |-> <<cursor>>]
  ELSE [pair |-> pair, interval |-> 1440, since |-> <<>>]

\* the cursor taken from the last candle of the page
NextCursorFromCandle(page, last) == page[Len(page)].time

\* line 59: the cursor moves to the 'last' value of the response
NextCursor(page, last) == last

\* the loop stops on a page of KRAKEN_MAX_RESULTS candles too
IsFinalPageInclusive(page) == Len(page) <= KRAKEN_MAX_RESULTS

\* line 63: fewer candles than the cap end the loop
IsFinalPage(page) == Len(page) < KRAKEN_MAX_RESULTS

\* -------------------------------------------------------------------- state

VARIABLES
  file,                   \* the content of CSV_FILE_PATH, or AbsentFile
  now,                    \* the clock read by datetime.now()
  pc,                     \* where main() stands
  usd_pairs,              \* main: the discovered instruments
  idx,                    \* main: position of the for loop in usd_pairs
  existing_df,            \* main: the frame read at line 85, <<>> for the empty frame
  last_update_timestamp,  \* main
  all_data,               \* main: the rows of the frames appended at line 112
  all_ohlc_data,          \* get_ohlc_data: the accumulator
  since_timestamp,        \* get_ohlc_data: the cursor
  preFile,                \* history: the file when the run started
  discovery,              \* history: how AssetPairs answered in this run
  sinceLog,               \* history: the calls of get_ohlc_data in this run
  fetchLog,               \* history: every candle received in this run, in order
  failLog,                \* history: the instruments whose fetch ended on an error
  reqLog,                 \* history: the requests of the current fetch
  pageLog,                \* history: the responses of the current fetch
  wrote                   \* history: to_csv ran in this run

vars == <<file, now, pc, usd_pairs, idx, existing_df, last_update_timestamp, all_data,
          all_ohlc_data, since_timestamp, preFile, discovery, sinceLog, fetchLog,
          failLog, reqLog, pageLog, wrote>>

mainLocals == <<usd_pairs, idx, existing_df, last_update_timestamp, all_data>>
fetchLocals == <<all_ohlc_data, since_timestamp>>
runHistory == <<preFile, discovery, sinceLog, fetchLog, failLog, wrote>>
fetchHistory == <<reqLog, pageLog>>

Init ==
  /\ file = AbsentFile
  /\ now = FirstNow
  /\ pc = "idle"
  /\ usd_pairs = <<>>
  /\ idx = 0
  /\ existing_df = <<>>
  /\ last_update_timestamp = 0
  /\ all_data = <<>>
  /\ all_ohlc_data = <<>>
  /\ since_timestamp = 0
  /\ preFile = AbsentFile
  /\ discovery = "none"
  /\ sinceLog = <<>>
  /\ fetchLog = <<>>
  /\ failLog = <<>>
  /\ reqLog = <<>>
  /\ pageLog = <<>>
  /\ wrote = FALSE

\* no run of main() is in progress
Stopped == pc \in {"idle", "done", "crashed"}

\* the clock when a process starts: no earlier than the last reading
LaterClocks(clock) == {clock} \cup {t \in {clock + DaySecs} : t <= MaxNow}

\* a new process, started at clock: every local starts afresh
StartRun(outcome, clock) ==
  /\ Stopped
  /\ now' = clock
  /\ preFile' = file
  /\ discovery' = outcome
  /\ sinceLog' = <<>>
  /\ fetchLog' = <<>>
  /\ failLog' = <<>>
  /\ wrote' = FALSE
  /\ all_data' = <<>>
  /\ UNCHANGED <<file, fetchLocals, fetchHistory>>

\* lines 15-24 and 77-93: AssetPairs answers with a listing; main leaves when no
\* instrument passes the filter, and loads the existing dataset otherwise
DiscoverOk ==
  \E listing \in Listings, clock \in LaterClocks(now) :
    /\ StartRun("ok", clock)
    /\ usd_pairs' = FilterUsd(listing)
    /\ IF usd_pairs' = <<>>
       THEN /\ pc' = "done"
            /\ UNCHANGED <<idx, existing_df, last_update_timestamp>>
       ELSE /\ pc' = "loop"
            /\ idx' = 1
            /\ IF file.exists
               THEN /\ existing_df' = ReadCsv(file)
                    /\ last_update_timestamp' = MaxDateTimestamp(ReadCsv(file))
               ELSE /\ existing_df' = <<>>
                    /\ last_update_timestamp' = LookbackStart(clock)

\* lines 25-27 and 78-80: a RequestException is caught, the result is []
DiscoverTransportError ==
  /\ \E clock \in LaterClocks(now) : StartRun("transport_error", clock)
  /\ usd_pairs' = <<>>
  /\ pc' = "done"
  /\ UNCHANGED <<idx, existing_df, last_update_timestamp>>

\* lines 18-19: a non-empty error list raises Exception, which the handler at
\* line 25 does not catch: it leaves get_usd_pairs and main
DiscoverApiError ==
  /\ \E clock \in LaterClocks(now) : StartRun("api_error", clock)
  /\ usd_pairs' = <<>>
  /\ pc' = "crashed"
  /\ UNCHANGED <<idx, existing_df, last_update_timestamp>>

\* lines 95-106 and 34-35: the loop takes the next instrument and calls get_ohlc_data
BeginPair ==
  /\ pc = "loop"
  /\ LET pair == usd_pairs[idx]
         since == SinceFor(pair, existing_df, last_update_timestamp, now)
     IN /\ since_timestamp' = since
        /\ sinceLog' = Append(sinceLog, [pair |-> pair, since |-> since, clock |-> now])
  /\ all_ohlc_data' = <<>>
  /\ reqLog' = <<>>
  /\ pageLog' = <<>>
  /\ pc' = "paging"
  /\ UNCHANGED <<file, now, mainLocals, preFile, discovery, fetchLog, failLog, wrote>>

\* lines 38-43: the request sent with the current cursor
SendRequest == reqLog' = Append(reqLog, RequestParams(usd_pairs[idx], since_timestamp))

\* lines 50-64: a page with candles is appended and the cursor moves
PageOk ==
  \E page \in Pages, last \in Cursors :
    /\ pc = "paging"
    /\ Len(page) < KRAKEN_MAX_RESULTS \/ Len(reqLog) + 1 < MaxPages
    /\ SendRequest
    /\ pageLog' = Append(pageLog, [kind |-> "ok", candles |-> page, last |-> last])
    /\ all_ohlc_data' = all_ohlc_data \o page
    /\ since_timestamp' = NextCursor(page, last)
    /\ fetchLog' = fetchLog \o
         [i \in 1..Len(page) |->
            [pair |-> usd_pairs[idx], date |-> page[i].time, close |-> page[i].close]]
    /\ pc' = IF IsFinalPage(page) THEN "returned" ELSE "paging"
    /\ UNCHANGED <<file, now, mainLocals, preFile, discovery, sinceLog, failLog, wrote>>

\* lines 53-54: an empty page ends the loop
PageEmpty ==
  /\ pc = "paging"
  /\ SendRequest
  /\ pageLog' = Append(pageLog, [kind |-> "empty", candles |-> <<>>, last |-> 0])
  /\ pc' = "returned"
  /\ UNCHANGED <<file, now, mainLocals, fetchLocals, runHistory>>

\* the accumulator thrown away on an error
OnFetchErrorDiscard == <<>>

\* lines 48, 68 and 73: break leaves the accumulator as it is, and it is returned
OnFetchError == all_ohlc_data

\* lines 46-48: an API-reported error ends the loop
PageApiError ==
  /\ pc = "paging"
  /\ SendRequest
  /\ pageLog' = Append(pageLog, [kind |-> "api_error", candles |-> <<>>, last |-> 0])
  /\ all_ohlc_data' = OnFetchError
  /\ failLog' = Append(failLog, usd_pairs[idx])
  /\ pc' = "returned"
  /\ UNCHANGED <<file, now, mainLocals, since_timestamp, preFile, discovery, sinceLog,
                 fetchLog, wrote>>

\* lines 66-68: a RequestException ends the loop
PageTransportError ==
  /\ pc = "paging"
  /\ SendRequest
  /\ pageLog' = Append(pageLog, [kind |-> "transport_error", candles |-> <<>>, last |-> 0])
  /\ all_ohlc_data' = OnFetchError
  /\ failLog' = Append(failLog, usd_pairs[idx])
  /\ pc' = "returned"
  /\ UNCHANGED <<file, now, mainLocals, since_timestamp, preFile, discovery, sinceLog,
                 fetchLog, wrote>>

\* lines 108-112: the frames collected once get_ohlc_data has returned
Collected ==
  IF all_ohlc_data # <<>>
  THEN all_data \o ProjectRows(usd_pairs[idx], all_ohlc_data)
  ELSE all_data

\* get_ohlc_data's locals and the logs of its requests end with the call
LeaveFetch ==
  /\ all_ohlc_data' = <<>>
  /\ since_timestamp' = 0
  /\ reqLog' = <<>>
  /\ pageLog' = <<>>

\* lines 73 and 106-114: get_ohlc_data returns and the loop goes on
NextPair ==
  /\ pc = "returned"
  /\ idx < Len(usd_pairs)
  /\ all_data' = Collected
  /\ idx' = idx + 1
  /\ pc' = "loop"
  /\ LeaveFetch
  /\ UNCHANGED <<file, now, usd_pairs, existing_df, last_update_timestamp, runHistory>>

\* the dataset written by every run
ShouldWriteAlways(frames) == TRUE

\* line 116: the dataset is written when a frame was collected
ShouldWrite(frames) == frames # <<>>

\* lines 73, 106-114 and 116-130: the last instrument returns; merge, sort, write
FinishRun ==
  /\ pc = "returned"
  /\ idx = Len(usd_pairs)
  /\ all_data' = Collected
  /\ IF ShouldWrite(Collected)
     THEN /\ file' = ToCsv(Reconcile(existing_df, Collected))
          /\ wrote' = TRUE
     ELSE UNCHANGED <<file, wrote>>
  /\ pc' = "done"
  /\ LeaveFetch
  /\ UNCHANGED <<now, usd_pairs, idx, existing_df, last_update_timestamp, preFile,
                 discovery, sinceLog, fetchLog, failLog>>

Next ==
  \/ DiscoverOk
  \/ DiscoverTransportError
  \/ DiscoverApiError
  \/ BeginPair
  \/ PageOk
  \/ PageEmpty
  \/ PageApiError
  \/ PageTransportError
  \/ NextPair
  \/ FinishRun

Spec == Init /\ [][Next]_vars

\* ------------------------------------------------------------------- claims

\* a line of the file: <<pair, date, close>>
LineKey(l) == <<l[1], l[2]>>
RowLine(r) == <<r.pair, r.date, r.close>>
FetchedAt(key) == {i \in 1..Len(fetchLog) : <<fetchLog[i].pair, fetchLog[i].date>> = key}
LastFetchedClose(key) == fetchLog[SetMax(FetchedAt(key))].close
StoredAt(f, key) == {i \in 1..Len(f.lines) : LineKey(f.lines[i]) = key}
RunWrote == pc = "done" /\ wrote

\* C1: after a run that wrote the dataset, every key of the file has exactly one
\* line; its close is the close fetched last for that key in the run if the key was
\* fetched, and the close stored before the run otherwise.
C1_DedupLastWins ==
  RunWrote =>
    \A i \in 1..Len(file.lines) :
      LET key == LineKey(file.lines[i])
      IN /\ StoredAt(file, key) = {i}
         /\ IF FetchedAt(key) # {}
            THEN file.lines[i][3] = LastFetchedClose(key)
            ELSE \E j \in StoredAt(preFile, key) : file.lines[i] = preFile.lines[j]

\* a run that fetched one key twice with two closes, replaced a stored close, and
\* kept a stored line it did not fetch
C1_Witness ==
  /\ RunWrote
  /\ \E i, j \in 1..Len(fetchLog) :
       /\ i < j
       /\ fetchLog[i].pair = fetchLog[j].pair
       /\ fetchLog[i].date = fetchLog[j].date
       /\ fetchLog[i].close # fetchLog[j].close
  /\ \E j \in 1..Len(preFile.lines) :
       /\ FetchedAt(LineKey(preFile.lines[j])) # {}
       /\ LastFetchedClose(LineKey(preFile.lines[j])) # preFile.lines[j][3]
  /\ \E j \in 1..Len(preFile.lines) : FetchedAt(LineKey(preFile.lines[j])) = {}

\* the run received nothing new: for every key it fetched, the last close fetched is
\* the close the file already held
NoNewData ==
  \A i \in 1..Len(fetchLog) :
    LET r == fetchLog[i]
        key == <<r.pair, r.date>>
    IN \E j \in StoredAt(preFile, key) : preFile.lines[j][3] = LastFetchedClose(key)

\* C2: a run that starts from a populated file and receives no new data leaves the
\* file identical.
C2_Idempotent ==
  (pc = "done" /\ preFile.exists /\ NoNewData) => file = preFile

\* a second run that fetched candles out of file order, all of them stored already,
\* and wrote
C2_Witness ==
  /\ RunWrote
  /\ preFile.exists
  /\ NoNewData
  /\ Len(fetchLog) >= 2
  /\ usd_pairs = <<"XBTUSD", "ADAUSD">>
  /\ Len(preFile.lines) >= 3

\* C3: a run in which no candle was fetched (no instrument discovered, or every
\* fetch empty) finishes without writing, and the file is as it was.
C3_NoFetchNoWrite ==
  (pc = "done" /\ fetchLog = <<>>) => (~wrote /\ file = preFile)

\* two instruments were fetched, neither returned a candle, a file existed
C3_Witness ==
  /\ pc = "done"
  /\ fetchLog = <<>>
  /\ Len(sinceLog) = 2
  /\ preFile.exists
  /\ file = preFile

\* discovery listed no USD instrument while a file existed: main left at once
C3_WitnessNoPairs ==
  /\ pc = "done"
  /\ discovery = "ok"
  /\ usd_pairs = <<>>
  /\ sinceLog = <<>>
  /\ preFile.exists
  /\ file = preFile

\* C4: on a transport error and on an API-reported error, pair discovery returns
\* the empty sequence and main leaves normally without touching the file.
C4_DiscoveryNeverRaises ==
  (Stopped /\ discovery \in {"transport_error", "api_error"}) =>
    (pc = "done" /\ usd_pairs = <<>> /\ ~wrote /\ file = preFile)

PairsStored(f) == {f.lines[i][1] : i \in 1..Len(f.lines)}
MaxDateStored(f) == SetMax({f.lines[i][2] : i \in 1..Len(f.lines)})
MaxDateStoredOf(f, pair) ==
  SetMax({f.lines[i][2] : i \in {k \in 1..Len(f.lines) : f.lines[k][1] = pair}})
NonEmptyBefore == preFile.exists /\ Len(preFile.lines) > 0

\* C5: with a non-empty dataset, the fetch of an instrument that has no row in it
\* starts at the clock minus DAYS_OF_HISTORY days, and the fetch of an instrument
\* that has rows starts at the greatest date of the whole dataset.
C5_NewInstrumentPolicy ==
  NonEmptyBefore =>
    \A i \in 1..Len(sinceLog) :
      LET e == sinceLog[i]
      IN IF e.pair \in PairsStored(preFile)
         THEN e.since = MaxDateStored(preFile)
         ELSE e.since = e.clock - DAYS_OF_HISTORY * DaySecs

\* a run that fetched a new instrument and a stored one, from different starts
C5_Witness ==
  /\ NonEmptyBefore
  /\ \E i, j \in 1..Len(sinceLog) :
       /\ sinceLog[i].pair \notin PairsStored(preFile)
       /\ sinceLog[j].pair \in PairsStored(preFile)
       /\ sinceLog[i].since # sinceLog[j].since
       /\ sinceLog[i].since # MaxDateStored(preFile)

ConcatCandles(log) ==
  LET RECURSIVE Cat(_)
      Cat(k) == IF k = 0 THEN <<>> ELSE Cat(k - 1) \o log[k].candles
  IN Cat(Len(log))
FullPage(r) == r.kind = "ok" /\ Len(r.candles) >= KRAKEN_MAX_RESULTS
InFetch == pc \in {"paging", "returned"}

\* C6: every response but the last was a successful page of KRAKEN_MAX_RESULTS
\* candles or more; the fetcher asks again after such a page and only then; it has
\* returned after the first page that is empty, shorter or failed; what it holds is
\* the concatenation of the pages received, in order.
C6_Pagination ==
  InFetch =>
    /\ Len(reqLog) = Len(pageLog)
    /\ \A i \in 1..(Len(pageLog) - 1) : FullPage(pageLog[i])
    /\ (pc = "paging" /\ pageLog # <<>>) => FullPage(pageLog[Len(pageLog)])
    /\ pc = "returned" => (pageLog # <<>> /\ ~FullPage(pageLog[Len(pageLog)]))
    /\ all_ohlc_data = ConcatCandles(pageLog)

\* a full page, then a shorter one: two requests, the candles of both returned
C6_Witness ==
  /\ pc = "returned"
  /\ Len(reqLog) = 2
  /\ Len(pageLog[1].candles) = KRAKEN_MAX_RESULTS
  /\ pageLog[2].kind = "ok"
  /\ Len(pageLog[2].candles) < KRAKEN_MAX_RESULTS
  /\ all_ohlc_data = pageLog[1].candles \o pageLog[2].candles

\* C7: a fetch that ended on an error returned the candles of its earlier pages;
\* the run went on to fetch every discovered instrument; the rows gathered before
\* the error are in the dataset written at the end.
C7_FailureIsolation ==
  /\ (pc = "returned" /\ pageLog[Len(pageLog)].kind \in {"api_error", "transport_error"})
       => all_ohlc_data = ConcatCandles(SubSeq(pageLog, 1, Len(pageLog) - 1))
  /\ (pc = "done" /\ discovery = "ok") =>
       /\ [i \in 1..Len(sinceLog) |-> sinceLog[i].pair] = usd_pairs
       /\ \A i \in 1..Len(fetchLog) :
            fetchLog[i].pair \in Range(failLog) =>
              /\ wrote
              /\ \E j \in 1..Len(file.lines) :
                   /\ LineKey(file.lines[j]) = <<fetchLog[i].pair, fetchLog[i].date>>
                   /\ file.lines[j][3] = LastFetchedClose(LineKey(file.lines[j]))

\* the first of two instruments failed on its second page; the second was fetched
\* and returned candles too
C7_Witness ==
  /\ pc = "done"
  /\ Len(usd_pairs) = 2
  /\ failLog = <<usd_pairs[1]>>
  /\ \E i, j \in 1..Len(fetchLog) :
       fetchLog[i].pair = usd_pairs[1] /\ fetchLog[j].pair = usd_pairs[2]
  /\ wrote

LineLess(a, b) ==
  \/ PairRank(a[1]) < PairRank(b[1])
  \/ a[1] = b[1] /\ a[2] < b[2]

\* C8: every dataset written is sorted ascending by (pair, date).
C8_Sorted ==
  file.exists =>
    \A i \in 1..(Len(file.lines) - 1) : LineLess(file.lines[i], file.lines[i + 1])

\* a written dataset of two instruments, fetched in descending order of name
C8_Witness ==
  /\ RunWrote
  /\ usd_pairs = <<"XBTUSD", "ADAUSD">>
  /\ Len(fetchLog) >= 3
  /\ Len(file.lines) >= 3
  /\ fetchLog[1].pair = "XBTUSD"
  /\ fetchLog[Len(fetchLog)].pair = "ADAUSD"

\* C9: the fetch of an instrument that has rows in the dataset starts at the
\* greatest date among that instrument's own rows.
C9_ResumeFromOwnLastDate ==
  NonEmptyBefore =>
    \A i \in 1..Len(sinceLog) :
      sinceLog[i].pair \in PairsStored(preFile) =>
        sinceLog[i].since = MaxDateStoredOf(preFile, sinceLog[i].pair)

SinceOf(cursor) == IF cursor = 0 THEN <<>> ELSE <<cursor>>

\* C10: the first request of a fetch carries the caller's since (no since when it
\* is 0); every later request carries the 'last' value of the response before it.
C10_Cursor ==
  InFetch =>
    \A i \in 1..Len(reqLog) :
      reqLog[i].since =
        IF i = 1 THEN SinceOf(sinceLog[Len(sinceLog)].since)
        ELSE SinceOf(pageLog[i - 1].last)

\* a second request whose since is the server's cursor, which is not the time of
\* the last candle received
C10_Witness ==
  /\ InFetch
  /\ Len(reqLog) = 2
  /\ pageLog[1].last # pageLog[1].candles[Len(pageLog[1].candles)].time
  /\ reqLog[2].since = <<pageLog[1].last>>
  /\ reqLog[1].since # <<>>

\* a first request without since: the caller's since was 0
C10_WitnessOmitted ==
  /\ InFetch
  /\ reqLog # <<>>
  /\ sinceLog[Len(sinceLog)].since = 0
  /\ reqLog[1].since = <<>>

====
